---------------------------- MODULE Spec2Model ----------------------------
(***************************************************************************)
(* Model of word_shuffler.py: the word formatter _word_from_row, the six   *)
(* mode strategies, the csv loader _read_csv_list and the session loop of  *)
(* _main.                                                                  *)
(*                                                                         *)
(* A Python str is a sequence of one-character strings.  A cell of the     *)
(* DataFrame is a tagged value: [type |-> "str", val |-> <chars>] for a    *)
(* str, and NaN (a float) for a cell pandas left empty.                    *)
(***************************************************************************)
EXTENDS Integers, Sequences, FiniteSets, TLC

(***************************************************************************)
(* Bounds of the model.                                                    *)
(***************************************************************************)
MaxFiles == 2      \* paths given on the command line (nargs = "+")
MaxTable == 2      \* rows read over all the csv files of one run
MaxLength == 3     \* largest value of --length that is tried

(***************************************************************************)
(* Values and strings.                                                     *)
(***************************************************************************)
Str(s) == [type |-> "str", val |-> s]

NaN == [type |-> "float", val |-> <<>>]

IsStr(v) == v.type = "str"

S_nan == <<"n", "a", "n">>

S_der == <<"d", "e", "r">>

S_die == <<"d", "i", "e">>

S_noun == <<"n", "o", "u", "n">>

S_Noun == <<"N", "o", "u", "n">>

S_verb == <<"v", "e", "r", "b">>

S_German == <<"(", "G", "e", "r", "m", "a", "n", ")", " ">>

S_Translated == <<"(", "T", "r", "a", "n", "s", "l", "a", "t", "e", "d", ")", " ">>

\* str.strip(): leading and trailing whitespace removed.
RECURSIVE LStrip(_)
LStrip(s) == IF s # <<>> /\ Head(s) = " " THEN LStrip(Tail(s)) ELSE s

RECURSIVE RStrip(_)
RStrip(s) ==
    IF s # <<>> /\ s[Len(s)] = " " THEN RStrip(SubSeq(s, 1, Len(s) - 1)) ELSE s

Strip(s) == RStrip(LStrip(s))

\* "{v}" inside an f-string: a str as it is, the float NaN as "nan".
Fmt(v) == IF IsStr(v) THEN v.val ELSE S_nan

Columns == {"Article", "Word", "Plural", "Translation", "Category"}

(***************************************************************************)
(* _word_from_row.  The result is the returned str (as a character         *)
(* sequence).                                                              *)
(***************************************************************************)
RenderArticleMutant(row, plural) ==
    IF plural = FALSE
    THEN (IF IsStr(row.Article) THEN row.Article.val ELSE S_die)
    ELSE S_die

RenderArticle(row, plural) ==
    IF plural = FALSE
    THEN (IF IsStr(row.Article) THEN row.Article.val ELSE <<>>)
    ELSE S_die

RenderWord(row, plural) == IF plural = FALSE THEN row.Word ELSE row.Plural

EmptyWordMutant(word) == ~IsStr(word)

EmptyWord(word) == ~IsStr(word) \/ Len(word.val) = 0

word_from_row(row, plural) ==
    LET article == RenderArticle(row, plural)
        word == RenderWord(row, plural)
    IN  IF EmptyWord(word)
        THEN <<>>
        ELSE Strip(article \o <<" ">> \o word.val)


(***************************************************************************)
(* Outcome of a call: a returned value, or the exception it raised.        *)
(***************************************************************************)
Return(v, smp) == [exc |-> "None", val |-> v, sample |-> smp]

Raise(e) == [exc |-> e, val |-> <<>>, sample |-> <<>>]

None == -1         \* args.length when --length is not given

MODES ==
    [TEST |-> {"german", "translated", "both", "plural", "article"},
     TRAIN |-> {"train"}]

ModeChoices == MODES.TEST \cup MODES.TRAIN

(***************************************************************************)
(* DataFrame.sample(n): n rows drawn without replacement, in any order;    *)
(* ValueError when n is larger than the population.                        *)
(***************************************************************************)
Injections(n, m) ==
    {f \in [1..n -> 1..m] : \A a, b \in 1..n : a # b => f[a] # f[b]}

sample(rows, n) ==
    IF n > Len(rows)
    THEN {Raise("ValueError")}
    ELSE {Return([k \in 1..n |-> rows[f[k]]], <<>>) : f \in Injections(n, Len(rows))}

\* random.shuffle(list): any order of the same elements.
shuffle(list) ==
    {[k \in 1..Len(list) |-> list[f[k]]] : f \in Injections(Len(list), Len(list))}

\* df[df["Category"] == "noun"]: KeyError without the column.
NounFilter(df) ==
    IF "Category" \notin df.cols
    THEN Raise("KeyError")
    ELSE Return(SelectSeq(df.rows, LAMBDA r : r.Category = Str(S_noun)), <<>>)

(***************************************************************************)
(* _mode_german                                                            *)
(***************************************************************************)
german_pair(row, nsc) ==
    LET test == IF nsc
                THEN Str(word_from_row(row, FALSE))
                ELSE Str(<<"[">> \o Fmt(row.Category) \o <<"]", " ">>
                         \o word_from_row(row, FALSE))
    IN  <<test, row.Translation>>

german_needs(nsc) ==
    {"Article", "Word", "Translation"} \cup (IF nsc THEN {} ELSE {"Category"})

\* The loop over sample.itertuples(): AttributeError on the first row that
\* is asked for a column the frame does not have.
german_loop(smp, cols, nsc) ==
    IF smp # <<>> /\ ~(german_needs(nsc) \subseteq cols)
    THEN Raise("AttributeError")
    ELSE Return([k \in 1..Len(smp) |-> german_pair(smp[k], nsc)], smp)

mode_german(df, args) ==
    {IF s.exc # "None" THEN s
     ELSE german_loop(s.val, df.cols, args.no_show_category)
       : s \in sample(df.rows, args.length)}

(***************************************************************************)
(* _mode_translated                                                        *)
(***************************************************************************)
translated_pair(row, nsc) ==
    LET test == IF nsc
                THEN row.Translation
                ELSE Str(<<"[">> \o Fmt(row.Category) \o <<"]", " ">>
                         \o Fmt(row.Translation))
    IN  <<test, Str(word_from_row(row, FALSE))>>

translated_loop(smp, cols, nsc) ==
    IF smp # <<>> /\ ~(german_needs(nsc) \subseteq cols)
    THEN Raise("AttributeError")
    ELSE Return([k \in 1..Len(smp) |-> translated_pair(smp[k], nsc)], smp)

mode_translated(df, args) ==
    {IF s.exc # "None" THEN s
     ELSE translated_loop(s.val, df.cols, args.no_show_category)
       : s \in sample(df.rows, args.length)}

(***************************************************************************)
(* _mode_both                                                              *)
(***************************************************************************)
Tag(tag, list) == [k \in 1..Len(list) |-> <<Str(tag \o Fmt(list[k][1])), list[k][2]>>]

HalfMutant(list) == SubSeq(list, 1, (Len(list) + 1) \div 2)

Half(list) == SubSeq(list, 1, Len(list) \div 2)

mode_both(df, args) ==
    UNION {
      IF g.exc # "None" THEN {g}
      ELSE UNION {
        IF t.exc # "None" THEN {t}
        ELSE {Return(o, <<>>) :
                o \in shuffle(Tag(S_German, Half(g.val))
                              \o Tag(S_Translated, Half(t.val)))}
        : t \in mode_translated(df, args)}
      : g \in mode_german(df, args)}

(***************************************************************************)
(* _mode_plural                                                            *)
(***************************************************************************)
plural_needs(row) ==
    {"Article", "Word", "Plural"}
      \cup (IF "Plural" \in DOMAIN row /\ Len(word_from_row(row, TRUE)) # 0
            THEN {"Translation"} ELSE {})

plural_pair(row) ==
    <<Str(word_from_row(row, FALSE)),
      Str(word_from_row(row, TRUE) \o <<" ", "(">> \o Fmt(row.Translation) \o <<")">>)>>

PluralKeepMutant(row) == TRUE

PluralKeep(row) == ~(Len(word_from_row(row, TRUE)) = 0)

plural_loop(smp, cols) ==
    IF \E k \in 1..Len(smp) : ~(plural_needs(smp[k]) \subseteq cols)
    THEN Raise("AttributeError")
    ELSE LET kept == SelectSeq(smp, PluralKeep)
         IN  Return([k \in 1..Len(kept) |-> plural_pair(kept[k])], smp)

mode_plural(df, args) ==
    LET nouns == NounFilter(df)
    IN  IF nouns.exc # "None" THEN {nouns}
        ELSE {IF s.exc # "None" THEN s ELSE plural_loop(s.val, df.cols)
                : s \in sample(nouns.val, args.length)}

(***************************************************************************)
(* _mode_article                                                           *)
(***************************************************************************)
article_pair(row) == <<row.Word, Str(word_from_row(row, FALSE))>>

article_loop(smp, cols) ==
    IF smp # <<>> /\ ~({"Word", "Article"} \subseteq cols)
    THEN Raise("AttributeError")
    ELSE Return([k \in 1..Len(smp) |-> article_pair(smp[k])], smp)

mode_article(df, args) ==
    LET nouns == NounFilter(df)
    IN  IF nouns.exc # "None" THEN {nouns}
        ELSE {IF s.exc # "None" THEN s ELSE article_loop(s.val, df.cols)
                : s \in sample(nouns.val, args.length)}

(***************************************************************************)
(* _mode_train                                                             *)
(***************************************************************************)
train_needs(row) ==
    {"Article", "Word", "Category", "Translation"}
      \cup (IF "Category" \in DOMAIN row /\ row.Category = Str(S_Noun)
            THEN {"Plural"} ELSE {})

train_pair(row, nsc) ==
    LET word0 == word_from_row(row, FALSE)
        word1 == IF row.Category = Str(S_Noun)
                 THEN word0 \o <<",", " ">> \o word_from_row(row, TRUE)
                 ELSE word0
        word2 == IF ~nsc
                 THEN <<"[">> \o Fmt(row.Category) \o <<"]", " ">> \o word1
                 ELSE word1
    IN  <<Str(word2), row.Translation>>

train_loop(smp, cols, nsc) ==
    IF \E k \in 1..Len(smp) : ~(train_needs(smp[k]) \subseteq cols)
    THEN Raise("AttributeError")
    ELSE Return([k \in 1..Len(smp) |-> train_pair(smp[k], nsc)], smp)

mode_train(df, args) ==
    {IF s.exc # "None" THEN s
     ELSE train_loop(s.val, df.cols, args.no_show_category)
       : s \in sample(df.rows, args.length)}


(***************************************************************************)
(* _modes_has_duplicates                                                   *)
(***************************************************************************)
modes_has_duplicates(modes) ==
    \E a, b \in DOMAIN modes : a # b /\ modes[a] \cap modes[b] # {}

(***************************************************************************)
(* The csv files a path may name.  pd.read_csv gives a frame with the      *)
(* file's own columns, an empty cell read as NaN, or raises (no such file, *)
(* an empty file, a file that does not parse).                             *)
(***************************************************************************)
Row(a, w, p, t, c) ==
    [Article |-> a, Word |-> w, Plural |-> p, Translation |-> t, Category |-> c]

RowTisch == Row(Str(S_der), Str(<<"T">>), Str(<<"T", "e">>), Str(<<"t">>), Str(S_noun))

RowKatze == Row(NaN, Str(<<"K">>), NaN, Str(<<"c">>), Str(S_noun))

RowGehen == Row(NaN, Str(<<"g">>), NaN, NaN, Str(S_verb))

RowFrau == Row(Str(S_die), Str(<<"F">>), Str(<<"F", "n">>), Str(<<"w">>), Str(S_Noun))

CsvRows == {RowTisch, RowKatze, RowGehen, RowFrau}

Project(r, cols) == [c \in cols |-> r[c]]

NoCategory == Columns \ {"Category"}

SeqsUpTo(S, n) == UNION {[1..k -> S] : k \in 0..n}

Unreadable == [cols |-> {}, rows |-> <<>>, readable |-> FALSE]

Frame(cols, rows) == [cols |-> cols, rows |-> rows, readable |-> TRUE]

CsvFiles(cap) ==
    {Unreadable}
      \cup {Frame(Columns, rs) : rs \in SeqsUpTo(CsvRows, cap)}
      \cup {Frame(NoCategory, rs) :
              rs \in SeqsUpTo({Project(RowGehen, NoCategory)}, cap)}

RECURSIVE RowCount(_)
RowCount(list) ==
    IF list = <<>> THEN 0 ELSE Len(Head(list).rows) + RowCount(Tail(list))

(***************************************************************************)
(* pd.concat(df_list, ignore_index = True): the union of the columns, the  *)
(* rows in list order, NaN where a frame lacks a column; ValueError on an  *)
(* empty list.                                                             *)
(***************************************************************************)
RECURSIVE AllCols(_)
AllCols(list) ==
    IF list = <<>> THEN {} ELSE Head(list).cols \cup AllCols(Tail(list))

Fill(r, cols) == [c \in cols |-> IF c \in DOMAIN r THEN r[c] ELSE NaN]

RECURSIVE AllRows(_, _)
AllRows(list, cols) ==
    IF list = <<>> THEN <<>>
    ELSE [k \in 1..Len(Head(list).rows) |-> Fill(Head(list).rows[k], cols)]
           \o AllRows(Tail(list), cols)

concatMutant(list) ==
    IF list = <<>> THEN Raise("ValueError")
    ELSE Return([cols |-> AllCols(list),
                 rows |-> AllRows(<<Head(list)>>, AllCols(list))], <<>>)

concat(list) ==
    IF list = <<>> THEN Raise("ValueError")
    ELSE Return([cols |-> AllCols(list), rows |-> AllRows(list, AllCols(list))], <<>>)


(***************************************************************************)
(* State of one run of the script.                                         *)
(***************************************************************************)
VARIABLES
    pc,          \* where _main is: "start", "read", "adjust", "dispatch",
                 \* "loop", "print", "done" (returned), "crashed" (raised)
    args,        \* the parsed command line; args.length is reassigned
    length_arg,  \* --length as parsed, kept to state the clamping
    csv_i,       \* _read_csv_list: files tried so far
    df_list,     \* _read_csv_list: frames read so far
    df,          \* the table
    log,         \* messages of logger.error
    smp,         \* the rows the mode drew (<<>> for "both")
    pair_list,   \* what the mode returned
    total,
    i,           \* index of the session loop
    str,         \* the line input() returned last
    reads,       \* calls of input() that have returned
    stdout,      \* lines written by print()
    exit_code,   \* -1 while running
    raised,      \* the exception that ended the run, "None" otherwise
    row,         \* the formatter on its own: its arguments, ...
    plural,
    rendered,    \* ... its result, ...
    rpc          \* ... and "call" before, "returned" after

vars == <<pc, args, length_arg, csv_i, df_list, df, log, smp, pair_list, total,
          i, str, reads, stdout, exit_code, raised, row, plural, rendered, rpc>>

mainVars == <<pc, args, length_arg, csv_i, df_list, df, log, smp, pair_list,
              total, i, str, reads, stdout, exit_code, raised>>

renderVars == <<row, plural, rendered, rpc>>

EmptyFrame == [cols |-> {}, rows |-> <<>>]

MainIdle ==
    /\ pc = "start"
    /\ csv_i = 0
    /\ df_list = <<>>
    /\ df = EmptyFrame
    /\ log = <<>>
    /\ smp = <<>>
    /\ pair_list = <<>>
    /\ total = 0
    /\ i = 0
    /\ str = <<>>
    /\ reads = 0
    /\ stdout = <<>>
    /\ exit_code = -1
    /\ raised = "None"

RenderIdle ==
    /\ row = RowTisch
    /\ plural = FALSE
    /\ rendered = <<>>
    /\ rpc = "idle"

\* _parse_args: mode among the choices, one path or more, --length absent
\* or an integer >= 0.
Init ==
    /\ MainIdle
    /\ \E m \in ModeChoices, l \in {None} \cup 0..MaxLength,
          n \in BOOLEAN, c \in 1..MaxFiles :
         /\ args = [mode |-> m, length |-> l, no_show_category |-> n,
                    input_csv |-> c]
         /\ length_arg = l
    /\ RenderIdle


(***************************************************************************)
(* _main, up to the table.                                                 *)
(***************************************************************************)
\* return 1 from _main (or an exception caught there): nothing else changes.
Exit(code) ==
    /\ pc' = "done"
    /\ exit_code' = code

\* An exception nobody catches ends the process with a traceback: status 1,
\* and the status of a SIGINT for KeyboardInterrupt.
Crash(e) ==
    /\ pc' = "crashed"
    /\ raised' = e
    /\ exit_code' = IF e = "KeyboardInterrupt" THEN 130 ELSE 1

MainStart ==
    /\ pc = "start"
    /\ IF modes_has_duplicates(MODES)
       THEN /\ Exit(1)
            /\ log' = Append(log, "Duplicates in MODE found")
       ELSE /\ pc' = "read"
            /\ UNCHANGED <<exit_code, log>>
    /\ UNCHANGED <<args, length_arg, csv_i, df_list, df, smp, pair_list, total,
                   i, str, reads, stdout, raised, renderVars>>

\* One turn of the loop of _read_csv_list: the file is read, or the failure
\* is logged and the file skipped.
ReadCsv ==
    /\ pc = "read"
    /\ csv_i < args.input_csv
    /\ \E f \in CsvFiles(MaxTable - RowCount(df_list)) :
         IF f.readable
         THEN /\ df_list' = Append(df_list, [cols |-> f.cols, rows |-> f.rows])
              /\ log' = log
         ELSE /\ log' = Append(log, "Couldn't read file. Skipping")
              /\ df_list' = df_list
    /\ csv_i' = csv_i + 1
    /\ UNCHANGED <<pc, args, length_arg, df, smp, pair_list, total, i, str,
                   reads, stdout, exit_code, raised, renderVars>>

\* The end of _read_csv_list and the try/except around its call.
ReadCsvListReturn ==
    /\ pc = "read"
    /\ csv_i = args.input_csv
    /\ LET out == concat(df_list)
       IN  IF out.exc # "None"
           THEN /\ log' = Append(log, "Couldn't get a DataFrame")
                /\ Exit(1)
                /\ df' = df
           ELSE /\ df' = out.val
                /\ pc' = "adjust"
                /\ UNCHANGED <<log, exit_code>>
    /\ df_list' = <<>>
    /\ UNCHANGED <<args, length_arg, csv_i, smp, pair_list, total, i, str,
                   reads, stdout, raised, renderVars>>

Min(a, b) == IF a < b THEN a ELSE b

AdjustedMutant(length, n) == IF length = None THEN n ELSE length

Adjusted(length, n) == IF length = None THEN n ELSE Min(n, length)

AdjustLength ==
    /\ pc = "adjust"
    /\ args' = [args EXCEPT !.length = Adjusted(args.length, Len(df.rows))]
    /\ pc' = "dispatch"
    /\ UNCHANGED <<length_arg, csv_i, df_list, df, log, smp, pair_list, total,
                   i, str, reads, stdout, exit_code, raised, renderVars>>

(***************************************************************************)
(* The call of the mode function and total = len(pair_list).               *)
(***************************************************************************)
Dispatch(mode, outcomes) ==
    /\ pc = "dispatch"
    /\ args.mode = mode
    /\ \E out \in outcomes :
         IF out.exc # "None"
         THEN /\ Crash(out.exc)
              /\ UNCHANGED <<smp, pair_list, total>>
         ELSE /\ smp' = out.sample
              /\ pair_list' = out.val
              /\ total' = Len(out.val)
              /\ pc' = "loop"
              /\ UNCHANGED <<exit_code, raised>>
    /\ UNCHANGED <<args, length_arg, csv_i, df_list, df, log, i, str, reads,
                   stdout, renderVars>>

ModeGerman == Dispatch("german", mode_german(df, args))

ModeTranslated == Dispatch("translated", mode_translated(df, args))

ModeBoth == Dispatch("both", mode_both(df, args))

ModePlural == Dispatch("plural", mode_plural(df, args))

ModeArticle == Dispatch("article", mode_article(df, args))

ModeTrain == Dispatch("train", mode_train(df, args))

(***************************************************************************)
(* The session loop of _main.                                              *)
(***************************************************************************)
S_arrow == <<" ", "-", ">", " ">>

Counter(k, n) == <<"[", ToString(k), "/", ToString(n), "]", " ">>

TestLine(pair, line) ==
    IF line # <<>>
    THEN <<"\t">> \o Fmt(pair[1]) \o S_arrow \o Fmt(pair[2])
    ELSE <<"\t", "RED">> \o Fmt(pair[1]) \o S_arrow \o Fmt(pair[2]) \o <<"RESET">>

TrainLine(pair, k, n) == Counter(k, n) \o Fmt(pair[1]) \o S_arrow \o Fmt(pair[2])

NextIndexMutant(k) == k + 2

NextIndex(k) == k + 1

\* input(...) returns a line, empty or not.
Input ==
    /\ pc = "loop"
    /\ i < total
    /\ args.mode \in MODES.TEST
    /\ \E line \in {<<>>, <<"y">>} : str' = line
    /\ reads' = reads + 1
    /\ pc' = "print"
    /\ UNCHANGED <<args, length_arg, csv_i, df_list, df, log, smp, pair_list,
                   total, i, stdout, exit_code, raised, renderVars>>

\* input(...) is interrupted (Ctrl-C, end of file): nothing catches it.
Interrupt ==
    /\ pc = "loop"
    /\ i < total
    /\ args.mode \in MODES.TEST
    /\ Crash("KeyboardInterrupt")
    /\ UNCHANGED <<args, length_arg, csv_i, df_list, df, log, smp, pair_list,
                   total, i, str, reads, stdout, renderVars>>

PrintTest ==
    /\ pc = "print"
    /\ stdout' = Append(stdout, TestLine(pair_list[i + 1], str))
    /\ i' = NextIndex(i)
    /\ pc' = "loop"
    /\ UNCHANGED <<args, length_arg, csv_i, df_list, df, log, smp, pair_list,
                   total, str, reads, exit_code, raised, renderVars>>

PrintTrain ==
    /\ pc = "loop"
    /\ i < total
    /\ args.mode \notin MODES.TEST
    /\ args.mode \in MODES.TRAIN
    /\ stdout' = Append(stdout, TrainLine(pair_list[i + 1], i + 1, total))
    /\ i' = NextIndex(i)
    /\ UNCHANGED <<pc, args, length_arg, csv_i, df_list, df, log, smp,
                   pair_list, total, str, reads, exit_code, raised, renderVars>>

MainReturn ==
    /\ pc = "loop"
    /\ i >= total
    /\ Exit(0)
    /\ UNCHANGED <<args, length_arg, csv_i, df_list, df, log, smp, pair_list,
                   total, i, str, reads, stdout, raised, renderVars>>

Next ==
    \/ MainStart
    \/ ReadCsv
    \/ ReadCsvListReturn
    \/ AdjustLength
    \/ ModeGerman
    \/ ModeTranslated
    \/ ModeBoth
    \/ ModePlural
    \/ ModeArticle
    \/ ModeTrain
    \/ Input
    \/ Interrupt
    \/ PrintTest
    \/ PrintTrain
    \/ MainReturn

Spec == Init /\ [][Next]_vars

(***************************************************************************)
(* The formatter on its own: every row of RenderRows, both flags.          *)
(***************************************************************************)
ArticleCells == {NaN, Str(<<>>), Str(<<" ">>), Str(S_der)}

WordCells == {NaN, Str(<<>>), Str(<<" ">>), Str(<<"T">>), Str(<<" ", "T">>)}

RenderRows ==
    {Row(a, w, p, Str(<<"t">>), Str(S_noun)) :
       a \in ArticleCells, w \in WordCells, p \in WordCells}

RenderInit ==
    /\ MainIdle
    /\ length_arg = None
    /\ args = [mode |-> "german", length |-> None, no_show_category |-> FALSE,
               input_csv |-> 1]
    /\ row \in RenderRows
    /\ plural \in BOOLEAN
    /\ rendered = <<>>
    /\ rpc = "call"

RenderCall ==
    /\ rpc = "call"
    /\ rendered' = word_from_row(row, plural)
    /\ rpc' = "returned"
    /\ UNCHANGED <<row, plural, mainVars>>

RenderNext == RenderCall

RenderSpec == RenderInit /\ [][RenderNext]_vars


(***************************************************************************)
(* Vocabulary of the properties.                                           *)
(***************************************************************************)
NounModes == {"plural", "article"}

AllRowModes == {"german", "translated", "train"}

\* The mode function has returned its pair list.
ModeReturned ==
    \/ pc \in {"loop", "print"}
    \/ pc = "done" /\ exit_code = 0
    \/ pc = "crashed" /\ raised = "KeyboardInterrupt"

\* The mode function was called (it returned or it raised).
ModeCalled == ModeReturned \/ (pc = "crashed" /\ raised # "KeyboardInterrupt")

TableSize == Len(df.rows)

IsNoun(r) == "Category" \in DOMAIN r /\ r.Category = Str(S_noun)

NounCount == Cardinality({k \in 1..Len(df.rows) : IsNoun(df.rows[k])})

Requested == IF length_arg = None THEN TableSize ELSE Min(length_arg, TableSize)

StartsWith(s, pre) == Len(s) >= Len(pre) /\ SubSeq(s, 1, Len(pre)) = pre

Contains(s, sub) ==
    \E k \in 1..(Len(s) - Len(sub) + 1) : SubSeq(s, k, k + Len(sub) - 1) = sub

(***************************************************************************)
(* C1.  In the noun-restricted modes plural and article the sample is      *)
(* drawn from the rows of category "noun" only and its length is clamped   *)
(* to their number: the mode completes, also when the length clamped to    *)
(* the table is larger than the number of nouns, with at most that many    *)
(* pairs.  Stated for a table that has the Category column.                *)
(***************************************************************************)
C1_NounClamp ==
    (args.mode \in NounModes /\ "Category" \in df.cols) =>
        /\ raised # "ValueError"
        /\ ModeReturned =>
             /\ Len(pair_list) <= NounCount
             /\ \A k \in 1..Len(smp) : IsNoun(smp[k])

(***************************************************************************)
(* C2.  In the noun-filtered modes, a table without the Category column or *)
(* without any row of category "noun" gives an empty pair list, never an   *)
(* error, for any requested length.                                        *)
(***************************************************************************)
C2_EmptyEligible ==
    (args.mode \in NounModes /\ ModeCalled
       /\ ("Category" \notin df.cols \/ NounCount = 0)) =>
        /\ raised \notin {"KeyError", "ValueError", "AttributeError"}
        /\ pair_list = <<>>

(***************************************************************************)
(* C3.  The sample length is clamped to the table size before the mode     *)
(* runs: args.length never exceeds the number of rows, so the draw of an   *)
(* all-row mode (german, translated, train) never asks for more rows than  *)
(* there are, and the mode returns min(L, T) pairs, T when --length is not *)
(* given.                                                                  *)
(***************************************************************************)
C3_Clamped ==
    /\ (pc \in {"dispatch", "crashed"} \/ ModeReturned) =>
         (args.length # None /\ args.length <= TableSize)
    /\ args.mode \in AllRowModes => raised # "ValueError"
    /\ (args.mode \in AllRowModes /\ ModeCalled /\ df.cols = Columns) =>
         ModeReturned
    /\ (args.mode \in AllRowModes /\ ModeReturned) =>
         /\ Len(pair_list) = Requested
         /\ Len(pair_list) <= TableSize
         /\ total = Len(pair_list)

C3_Witness ==
    /\ args.mode = "german"
    /\ pc = "done"
    /\ exit_code = 0
    /\ length_arg # None
    /\ length_arg > TableSize
    /\ TableSize = 2
    /\ Len(pair_list) = 2


(***************************************************************************)
(* C4.  The load fails only if no source is readable.  While the files are *)
(* read, each unreadable one is logged once and skipped.  When the loop    *)
(* ends with a frame read, the run goes on with the rows of the readable   *)
(* files, in order and nothing else; when it ends with none, the error is  *)
(* logged and _main returns 1 with no mode called and nothing shown.       *)
(***************************************************************************)
Offset(list, j) == RowCount(SubSeq(list, 1, j - 1))

LoadedFrom(list, table) ==
    /\ Len(table.rows) = RowCount(list)
    /\ \A j \in 1..Len(list) :
         /\ list[j].cols \subseteq table.cols
         /\ \A k \in 1..Len(list[j].rows) :
              \A c \in table.cols :
                 table.rows[Offset(list, j) + k][c] =
                    (IF c \in list[j].cols THEN list[j].rows[k][c] ELSE NaN)

C4_LoadStep ==
    (pc = "read" /\ csv_i = args.input_csv) =>
        IF df_list # <<>>
        THEN /\ pc' = "adjust"
             /\ exit_code' = -1
             /\ log' = log
             /\ LoadedFrom(df_list, df')
        ELSE /\ pc' = "done"
             /\ exit_code' = 1
             /\ Len(log') = Len(log) + 1
             /\ pair_list' = <<>>
             /\ stdout' = <<>>

C4_Load ==
    /\ [][C4_LoadStep]_vars
    /\ [](pc = "read" => Len(log) = csv_i - Len(df_list))
    /\ []((pc = "done" /\ exit_code = 1) =>
            (pair_list = <<>> /\ stdout = <<>> /\ reads = 0 /\ smp = <<>>))

C4_Witness ==
    /\ pc = "done"
    /\ exit_code = 0
    /\ Len(log) = 1
    /\ args.input_csv = 2
    /\ TableSize = 2
    /\ Len(stdout) = 2

(***************************************************************************)
(* C5.  Mode "both" returns floor(n/2) pairs tagged "(German) " and        *)
(* floor(n/2) pairs tagged "(Translated) ", n being the clamped length;    *)
(* each is a pair the german (translated) mode makes of a row of the       *)
(* table, with the expected answer of that pair.                           *)
(***************************************************************************)
Tagged(tag) ==
    {k \in 1..Len(pair_list) : IsStr(pair_list[k][1]) /\ StartsWith(pair_list[k][1].val, tag)}

Tagging(tag, q) == <<Str(tag \o Fmt(q[1])), q[2]>>

GermanOfRow(p) ==
    \E k \in 1..Len(df.rows) :
       p = Tagging(S_German, german_pair(df.rows[k], args.no_show_category))

TranslatedOfRow(p) ==
    \E k \in 1..Len(df.rows) :
       p = Tagging(S_Translated,
                   translated_pair(df.rows[k], args.no_show_category))

HasPlural(r) == IsStr(r.Plural) /\ r.Plural.val # <<>>

WithPlural == SelectSeq(smp, HasPlural)

ArticleTokens == {S_der, S_die}

StartsWithArticle(s) ==
    \E a \in ArticleTokens :
       /\ StartsWith(s, a)
       /\ (Len(s) = Len(a) \/ s[Len(a) + 1] = " ")

DeclaresArticle(r) == IsStr(r.Article) /\ r.Article.val # <<>>

C7_Original ==
    (rpc = "returned" /\ StartsWithArticle(rendered)) => DeclaresArticle(row)

(***************************************************************************)
(* C7, amended.  In a singular rendering the formatter puts an article     *)
(* before the word only when the record's article is a non-empty str, and  *)
(* the article is the record's; in a plural rendering it always puts the   *)
(* fixed article "die" before the plural, whatever the record's article.   *)
(***************************************************************************)
C7_Amended ==
    (rpc = "returned" /\ rendered # <<>>) =>
        /\ (plural = FALSE /\ DeclaresArticle(row)) =>
              rendered = Strip(row.Article.val \o <<" ">> \o row.Word.val)
        /\ (plural = FALSE /\ ~DeclaresArticle(row)) =>
              /\ rendered = Strip(row.Word.val)
              /\ ~StartsWithArticle(rendered)
        /\ plural = TRUE =>
              /\ rendered = Strip(S_die \o <<" ">> \o row.Plural.val)
              /\ StartsWithArticle(rendered)

C7_Witness ==
    /\ rpc = "returned"
    /\ plural = FALSE
    /\ row.Article = Str(S_der)
    /\ row.Word = Str(<<"T">>)
    /\ rendered = S_der \o <<" ", "T">>

(***************************************************************************)
(* C8.  The formatter returns the empty string whenever the selected field *)
(* (Word, or Plural when plural is set) is absent or empty, whatever the   *)
(* article: not "die", not the record's article, nothing.                  *)
(***************************************************************************)
Selected == IF plural THEN row.Plural ELSE row.Word

C8_EmptyWord ==
    (rpc = "returned" /\ (~IsStr(Selected) \/ Selected.val = <<>>)) =>
        /\ rendered = <<>>
        /\ ~StartsWithArticle(rendered)

C8_Witness ==
    /\ rpc = "returned"
    /\ plural = FALSE
    /\ row.Article = Str(S_der)
    /\ row.Word = Str(<<>>)
    /\ row.Plural = Str(<<"T">>)
    /\ rendered = <<>>

(***************************************************************************)
(* C9.  A missing field of a record is never an error and never shows: the *)
(* mode does not raise, and each prompt and each expected answer is a str  *)
(* that does not hold the text of the absent marker.                       *)
(***************************************************************************)
Clean(v) == IsStr(v) /\ ~Contains(v.val, S_nan)

C9_MissingField ==
    /\ ModeReturned =>
          \A k \in 1..Len(pair_list) :
             Clean(pair_list[k][1]) /\ Clean(pair_list[k][2])
    /\ args.mode \notin NounModes =>
          raised \notin {"AttributeError", "KeyError", "ValueError"}

(***************************************************************************)
(* C10.  The session loop shows the pairs once each and in the order of    *)
(* pair_list.  In a TEST mode the line of pair i+1 is printed after the    *)
(* read i+1 has returned and before the next read starts, red or not by    *)
(* the line read; in a TRAIN mode nothing is read.  _main returns 0 only   *)
(* when every pair has been shown.                                         *)
(***************************************************************************)
LineOf(k) ==
    IF args.mode \in MODES.TEST
    THEN {TestLine(pair_list[k], <<>>), TestLine(pair_list[k], <<"y">>)}
    ELSE {TrainLine(pair_list[k], k, Len(pair_list))}

C10_Runner ==
    /\ Len(stdout) = i
    /\ i <= Len(pair_list)
    /\ \A k \in 1..Len(stdout) : stdout[k] \in LineOf(k)
    /\ args.mode \in MODES.TRAIN => reads = 0
    /\ args.mode \in MODES.TEST =>
          reads = (IF pc = "print" THEN Len(stdout) + 1 ELSE Len(stdout))
    /\ (pc = "done" /\ exit_code = 0) => Len(stdout) = Len(pair_list)
    /\ (pc = "done" /\ exit_code # 0) => stdout = <<>>

C10_Witness ==
    /\ args.mode = "article"
    /\ pc = "done"
    /\ exit_code = 0
    /\ Len(pair_list) = 2
    /\ pair_list[1] # pair_list[2]
    /\ stdout = <<TestLine(pair_list[1], <<>>), TestLine(pair_list[2], <<"y">>)>>
    /\ reads = 2

=============================================================================
